---- MODULE Spec2Model ----
(***************************************************************************)
(* Cycle-level model of the out-of-order pipeline scheduler of cpu.cpp:    *)
(* CPU::simulate, CPU::tick and the seven stage procedures (retire,        *)
(* complete, execute, issue, dispatch, decode, fetch), together with the   *)
(* renaming state (free list, speculative and committed map tables), the   *)
(* reorder buffer and the four reservation stations.                       *)
(***************************************************************************)
EXTENDS Integers, Sequences, FiniteSets, TLC

(* ---------------------------- bounds ----------------------------------- *)
NumArch  == 3   \* architectural registers r0..r2 (constructor argument)
MaxLen   == 3   \* longest program
MaxWidth == 2   \* largest pipeline width
MaxRob   == 3   \* largest ROB capacity (0 is included)
MaxFree  == 2   \* most physical registers beyond the architectural ones

NONE == 0 - 1   \* the sentinel -1: absent operand / register / timestamp

(* ---------------------- program input ---------------------------------- *)
Inst(t, s1, s2, d) == [type |-> t, srcOp1 |-> s1, srcOp2 |-> s2, dstOp |-> d]

\* The instruction shapes programs are drawn from: ALU ops with a true
\* dependency chain r0 -> r1 -> r2, a load writing r1, a store without
\* destination.
Alphabet ==
    { Inst("ALU", 0, 0, 1),
      Inst("ALU", 1, 0, 2),
      Inst("LOAD", 0, NONE, 1),
      Inst("STORE", 0, 2, NONE) }

Programs == UNION { [1..n -> Alphabet] : n \in 0..MaxLen }

(* ---------------------- reservation stations --------------------------- *)
\* CPU::CPU pushes ALU(1), ALU(1), LOAD(2), STORE(2), in this order.
RSTypes == <<"ALU", "ALU", "LOAD", "STORE">>
RSExecTime == <<1, 1, 2, 2>>
NumRS == Len(RSTypes)

\* Instruction::getReservationStation : the station type an instruction needs.
RequiredType(ins) == ins.type

Stages == {"fetch", "decode", "dispatch", "issue", "execute", "complete", "retire"}

VARIABLES
    width, robEntries, numPhys, prog,   \* configuration and program (fixed)
    insts,          \* per instruction: rename fields, flags, timestamps
    mapTable,       \* speculative map: arch -> phys
    mapReady,       \* readiness bit per physical register
    archMap,        \* committed map: arch -> phys
    freeList,       \* sequence of free physical registers
    freePrev,       \* freePhysRegsPrevCycle
    rob,            \* sequence of [inst, T, Told], head first
    rs,             \* reservation stations: [busy, inst]
    decodeQ, dispatchQ, executeQ, completeQ,   \* stage queues (instruction ids)
    fetchPtr, isFetching, hasProgress, cycle,
    pc,             \* position inside simulate()/tick()
    hist            \* history: timestamp write counts and dispatch stalls

cfgvars == <<width, robEntries, numPhys, prog>>
vars == <<width, robEntries, numPhys, prog, insts, mapTable, mapReady, archMap,
          freeList, freePrev, rob, rs, decodeQ, dispatchQ, executeQ, completeQ,
          fetchPtr, isFetching, hasProgress, cycle, pc, hist>>

N == Len(prog)
Ids == 1..N

(* ---------------------- sequence helpers ------------------------------- *)
RemoveAt(q, j) == [k \in 1..(Len(q) - 1) |-> IF k < j THEN q[k] ELSE q[k + 1]]

SeqToSet(q) == { q[k] : k \in 1..Len(q) }

(* ---------------------- construction ----------------------------------- *)
\* Instruction::Instruction : nothing renamed, no flag set, no timestamp.
NewInst ==
    [ srcP1 |-> NONE, rdy1 |-> FALSE, srcP2 |-> NONE, rdy2 |-> FALSE,
      dstP |-> NONE, renamed |-> FALSE,
      issued |-> FALSE, completed |-> FALSE, retired |-> FALSE,
      fetchC |-> NONE, decodeC |-> NONE, dispatchC |-> NONE, issueC |-> NONE,
      executeC |-> NONE, completeC |-> NONE, retireC |-> NONE,
      execTime |-> 0, allocRs |-> 0 ]

\* MapTable::MapTable : architectural register a starts mapped to physical a.
InitMap == [a \in 0..(NumArch - 1) |-> a]

\* FreeList::FreeList : the physical registers beyond the architectural ones.
InitFreeList(np) == [k \in 1..(np - NumArch) |-> NumArch + k - 1]

NewHist(n) ==
    [ nset      |-> [i \in 1..n |-> [s \in Stages |-> 0]],
      robStall  |-> [i \in 1..n |-> NONE],
      otherStall |-> [i \in 1..n |-> NONE] ]

Init ==
    /\ width \in 1..MaxWidth
    /\ robEntries \in 0..MaxRob
    /\ numPhys \in NumArch..(NumArch + MaxFree)
    /\ prog \in Programs
    /\ insts = [i \in 1..Len(prog) |-> NewInst]
    /\ mapTable = InitMap
    /\ mapReady = [p \in 0..(numPhys - 1) |-> TRUE]
    /\ archMap = InitMap
    /\ freeList = InitFreeList(numPhys)
    /\ freePrev = <<>>
    /\ rob = <<>>
    /\ rs = [j \in 1..NumRS |-> [busy |-> FALSE, inst |-> 0]]
    /\ decodeQ = <<>>
    /\ dispatchQ = <<>>
    /\ executeQ = <<>>
    /\ completeQ = <<>>
    /\ fetchPtr = 0
    /\ isFetching = TRUE
    /\ hasProgress = FALSE
    /\ cycle = 0
    /\ pc = "start"
    /\ hist = NewHist(Len(prog))

(* ---------------------- state as a record ------------------------------ *)
\* The stage procedures are loops; each is computed on a record of the
\* mutable members of CPU and written back by the stage's action.
St ==
    [ insts |-> insts, mapTable |-> mapTable, mapReady |-> mapReady,
      archMap |-> archMap, freeList |-> freeList, freePrev |-> freePrev,
      rob |-> rob, rs |-> rs, decodeQ |-> decodeQ, dispatchQ |-> dispatchQ,
      executeQ |-> executeQ, completeQ |-> completeQ, fetchPtr |-> fetchPtr,
      isFetching |-> isFetching, hasProgress |-> hasProgress, hist |-> hist,
      cnt |-> 0 ]

WriteBack(s) ==
    /\ insts' = s.insts
    /\ mapTable' = s.mapTable
    /\ mapReady' = s.mapReady
    /\ archMap' = s.archMap
    /\ freeList' = s.freeList
    /\ freePrev' = s.freePrev
    /\ rob' = s.rob
    /\ rs' = s.rs
    /\ decodeQ' = s.decodeQ
    /\ dispatchQ' = s.dispatchQ
    /\ executeQ' = s.executeQ
    /\ completeQ' = s.completeQ
    /\ fetchPtr' = s.fetchPtr
    /\ isFetching' = s.isFetching
    /\ hasProgress' = s.hasProgress
    /\ hist' = s.hist

\* Instruction::setXCycle, with the history count of writes of that timestamp.
Stamp(s, i, stage) ==
    [s EXCEPT !.hist.nset[i][stage] = @ + 1]

(* ---------------------- retire ----------------------------------------- *)
\* retire() lines 401-409: the ROB is not empty and its head has completed.
RetireReady(s) ==
    /\ s.rob # <<>>
    /\ s.insts[Head(s.rob).inst].completed

\* Variant of RetireEntryIndex: the youngest completed entry is taken.
C1Mut_RetireEntryIndex(s) ==
    LET done == { k \in 1..Len(s.rob) : s.insts[s.rob[k].inst].completed } IN
    CHOOSE k \in done : \A m \in done : m <= k

\* retire() lines 411-415: the entry that is retired is the head.
RetireEntryIndex(s) == 1

\* Variant of RetireFreed: the new register T is released instead of Told.
C3Mut_RetireFreed(s, e) == s.insts[e.inst].dstP

\* retire() lines 431-435: the register queued for release is the entry's Told.
RetireFreed(s, e) == e.Told

\* Variant of RetireOne: Told is put into the free list at once.
C11Mut_RetireOne(s) ==
    LET k == RetireEntryIndex(s)
        e == s.rob[k]
        i == e.inst
        hasDst == prog[i].dstOp # NONE
        s1 == [s EXCEPT
                 !.rob = RemoveAt(s.rob, k),
                 !.archMap = IF hasDst
                             THEN [@ EXCEPT ![prog[i].dstOp] = s.insts[i].dstP]
                             ELSE @,
                 !.freeList = IF hasDst THEN Append(@, RetireFreed(s, e)) ELSE @,
                 !.insts[i].retired = TRUE,
                 !.insts[i].retireC = cycle,
                 !.hasProgress = TRUE]
    IN Stamp(s1, i, "retire")

\* Variant of RetireOne: the committed map takes the speculative mapping.
C18Mut_RetireOne(s) ==
    LET k == RetireEntryIndex(s)
        e == s.rob[k]
        i == e.inst
        hasDst == prog[i].dstOp # NONE
        s1 == [s EXCEPT
                 !.rob = RemoveAt(s.rob, k),
                 !.archMap = IF hasDst
                             THEN [@ EXCEPT ![prog[i].dstOp] = s.mapTable[prog[i].dstOp]]
                             ELSE @,
                 !.freePrev = IF hasDst THEN Append(@, RetireFreed(s, e)) ELSE @,
                 !.insts[i].retired = TRUE,
                 !.insts[i].retireC = cycle,
                 !.hasProgress = TRUE]
    IN Stamp(s1, i, "retire")

\* retire() lines 411-442: retire one ROB entry.
RetireOne(s) ==
    LET k == RetireEntryIndex(s)
        e == s.rob[k]
        i == e.inst
        hasDst == prog[i].dstOp # NONE
        s1 == [s EXCEPT
                 !.rob = RemoveAt(s.rob, k),
                 !.archMap = IF hasDst
                             THEN [@ EXCEPT ![prog[i].dstOp] = s.insts[i].dstP]
                             ELSE @,
                 !.freePrev = IF hasDst THEN Append(@, RetireFreed(s, e)) ELSE @,
                 !.insts[i].retired = TRUE,
                 !.insts[i].retireC = cycle,
                 !.hasProgress = TRUE]
    IN Stamp(s1, i, "retire")

RECURSIVE RetireLoop(_, _)
RetireLoop(s, i) ==
    IF i >= width THEN s
    ELSE IF ~RetireReady(s) THEN s
    ELSE RetireLoop(RetireOne(s), i + 1)

(* ---------------------- complete --------------------------------------- *)
\* ReservationStation::broadcastRegReady on every station: a held instruction
\* whose source physical register has this number gets that source ready.
Broadcast(s, regNum) ==
    [s EXCEPT !.insts =
        [i \in DOMAIN s.insts |->
            IF \E j \in 1..NumRS : s.rs[j].busy /\ s.rs[j].inst = i
            THEN [s.insts[i] EXCEPT
                    !.rdy1 = IF s.insts[i].srcP1 = regNum THEN TRUE ELSE @,
                    !.rdy2 = IF s.insts[i].srcP2 = regNum THEN TRUE ELSE @]
            ELSE s.insts[i]]]

\* Variant of CompleteDue: the latency is left out of the comparison.
C7Mut_CompleteDue(s, i) == cycle >= s.insts[i].executeC

\* complete() line 325: the latency deadline has been reached.
CompleteDue(s, i) == cycle >= s.insts[i].executeC + s.insts[i].execTime

\* complete() lines 328-354: complete the instruction at queue position j.
CompleteOne(s, j) ==
    LET i == s.completeQ[j]
        d == s.insts[i].dstP
        s1 == Broadcast(s, d)
        s2 == [s1 EXCEPT
                 !.mapReady = IF prog[i].dstOp # NONE
                              THEN [@ EXCEPT ![d] = TRUE] ELSE @,
                 !.insts[i].completed = TRUE,
                 !.insts[i].completeC = cycle,
                 !.completeQ = RemoveAt(s1.completeQ, j),
                 !.hasProgress = TRUE]
    IN Stamp(s2, i, "complete")

\* Variant of CompleteScan: a waiting instruction does not mark progress.
RECURSIVE C17Mut_CompleteScan(_, _)
C17Mut_CompleteScan(s, j) ==
    IF j > Len(s.completeQ) THEN s
    ELSE IF CompleteDue(s, s.completeQ[j])
         THEN C17Mut_CompleteScan(CompleteOne(s, j), j + 1)
         ELSE C17Mut_CompleteScan(s, j + 1)

\* complete() lines 317-364: one scan of the queue; after an erase at
\* position j the index still advances, so the element that moved into
\* position j is not examined in this scan.
RECURSIVE CompleteScan(_, _)
CompleteScan(s, j) ==
    IF j > Len(s.completeQ) THEN s
    ELSE IF CompleteDue(s, s.completeQ[j])
         THEN CompleteScan(CompleteOne(s, j), j + 1)
         ELSE CompleteScan([s EXCEPT !.hasProgress = TRUE], j + 1)

\* complete() lines 306-366: up to width scans.
RECURSIVE CompleteLoop(_, _)
CompleteLoop(s, i) ==
    IF i >= width THEN s
    ELSE IF s.completeQ = <<>> THEN s
    ELSE CompleteLoop(CompleteScan(s, 1), i + 1)

(* ---------------------- execute ---------------------------------------- *)
\* execute() lines 280-285: the first station of the instruction's type.
FirstRSOfType(t) ==
    CHOOSE j \in 1..NumRS :
        /\ RSTypes[j] = t
        /\ \A k \in 1..(j - 1) : RSTypes[k] # t

\* execute() lines 262-291: move the head of the execute queue to the
\* complete queue, stamp it, record the latency, free its station.
ExecuteOne(s) ==
    LET i == Head(s.executeQ)
        s1 == [s EXCEPT
                 !.completeQ = Append(@, i),
                 !.insts[i].executeC = cycle,
                 !.insts[i].execTime = RSExecTime[FirstRSOfType(RequiredType(prog[i]))],
                 !.rs[s.insts[i].allocRs] = [busy |-> FALSE, inst |-> 0],
                 !.hasProgress = TRUE,
                 !.executeQ = Tail(@)]
    IN Stamp(s1, i, "execute")

RECURSIVE ExecuteLoop(_, _)
ExecuteLoop(s, i) ==
    IF i >= width THEN s
    ELSE IF s.executeQ = <<>> THEN s
    ELSE ExecuteLoop(ExecuteOne(s), i + 1)

(* ---------------------- issue ------------------------------------------ *)
\* ReservationStation::isReadyToExecute : the station holds an instruction
\* and every present source physical register of it is ready.
IsReadyToExecute(s, j) ==
    /\ s.rs[j].busy
    /\ LET i == s.rs[j].inst IN
         /\ s.insts[i].rdy1
         /\ (prog[i].srcOp2 = NONE \/ s.insts[i].rdy2)

\* Variant of IssueCandidate: readiness of the sources is not consulted.
C14Mut_IssueCandidate(s, j) ==
    /\ s.rs[j].busy
    /\ ~s.insts[s.rs[j].inst].issued

\* Variant of IssueCandidate: the issued flag is not consulted.
C2Mut_IssueCandidate(s, j) == IsReadyToExecute(s, j)

\* issue() line 214: ready and not issued yet.
IssueCandidate(s, j) ==
    /\ IsReadyToExecute(s, j)
    /\ ~s.insts[s.rs[j].inst].issued

\* issue() lines 218-220: the global counter has gone past width.
IssueOverWidth(s) == s.cnt > width

\* issue() lines 222-229: push the station's instruction to the execute queue.
IssueOne(s, j) ==
    LET i == s.rs[j].inst
        s1 == [s EXCEPT
                 !.executeQ = Append(@, i),
                 !.insts[i].issued = TRUE,
                 !.insts[i].issueC = cycle,
                 !.hasProgress = TRUE]
    IN Stamp(s1, i, "issue")

\* issue() lines 209-234: width passes over the stations in list order.
RECURSIVE IssueLoop(_, _, _)
IssueLoop(s, i, j) ==
    IF i >= width THEN s
    ELSE IF j > NumRS THEN IssueLoop(s, i + 1, 1)
    ELSE IF IssueCandidate(s, j)
         THEN LET s1 == [s EXCEPT !.cnt = @ + 1] IN
              IF IssueOverWidth(s1) THEN s1
              ELSE IssueLoop(IssueOne(s1, j), i, j + 1)
         ELSE IssueLoop(s, i, j + 1)

(* ---------------------- dispatch --------------------------------------- *)
\* ReorderBuffer::hasFreeEntry
RobHasFreeEntry(s) == Len(s.rob) < robEntries

\* dispatch() lines 137-144: first free station of the type, 0 if none.
FreeRSIndex(s, t) ==
    LET free == { j \in 1..NumRS : RSTypes[j] = t /\ ~s.rs[j].busy } IN
    IF free = {} THEN 0
    ELSE CHOOSE j \in free : \A k \in free : j <= k

\* Variant of DispatchStall: the ROB is not asked for a free entry.
C8Mut_DispatchStall(s) ==
    IF s.dispatchQ = <<>> THEN "empty"
    ELSE IF FreeRSIndex(s, RequiredType(prog[Head(s.dispatchQ)])) = 0 THEN "rs"
    ELSE IF prog[Head(s.dispatchQ)].dstOp # NONE /\ s.freeList = <<>> THEN "reg"
    ELSE "go"

\* Variant of DispatchStall: dispatch also waits for a source register that
\* is not ready yet.
C9Mut_DispatchStall(s) ==
    IF s.dispatchQ = <<>> THEN "empty"
    ELSE IF ~RobHasFreeEntry(s) THEN "rob"
    ELSE IF FreeRSIndex(s, RequiredType(prog[Head(s.dispatchQ)])) = 0 THEN "rs"
    ELSE IF prog[Head(s.dispatchQ)].dstOp # NONE /\ s.freeList = <<>> THEN "reg"
    ELSE IF ~s.mapReady[s.mapTable[prog[Head(s.dispatchQ)].srcOp1]] THEN "rs"
    ELSE "go"

\* dispatch() lines 126-155: why the head of the dispatch queue cannot be
\* dispatched now ("go" when it can).
DispatchStall(s) ==
    IF s.dispatchQ = <<>> THEN "empty"
    ELSE IF ~RobHasFreeEntry(s) THEN "rob"
    ELSE IF FreeRSIndex(s, RequiredType(prog[Head(s.dispatchQ)])) = 0 THEN "rs"
    ELSE IF prog[Head(s.dispatchQ)].dstOp # NONE /\ s.freeList = <<>> THEN "reg"
    ELSE "go"

\* Variant of DispatchT: the destination reuses the first source's register.
C5Mut_DispatchT(s, i) ==
    IF prog[i].dstOp # NONE THEN s.mapTable[prog[i].srcOp1] ELSE NONE

\* dispatch() lines 160-168: the new destination register T (NONE without a
\* destination).
DispatchT(s, i) ==
    IF prog[i].dstOp # NONE THEN Head(s.freeList) ELSE NONE

\* Variant of DispatchTold: the first source's mapping is saved as Told.
C4Mut_DispatchTold(s, i) ==
    IF prog[i].dstOp # NONE THEN s.mapTable[prog[i].srcOp1] ELSE NONE

\* dispatch() line 166: Told is the destination's previous mapping.
DispatchTold(s, i) ==
    IF prog[i].dstOp # NONE THEN s.mapTable[prog[i].dstOp] ELSE NONE

\* dispatch() lines 156-185: rename and allocate the head of the queue.
DispatchOne(s) ==
    LET i == Head(s.dispatchQ)
        ins == prog[i]
        hasDst == ins.dstOp # NONE
        j == FreeRSIndex(s, RequiredType(ins))
        T == DispatchT(s, i)
        Told == DispatchTold(s, i)
        s1 == [s EXCEPT
                 !.insts[i].srcP1 = s.mapTable[ins.srcOp1],
                 !.insts[i].rdy1 = s.mapReady[s.mapTable[ins.srcOp1]],
                 !.insts[i].srcP2 = IF ins.srcOp2 # NONE
                                    THEN s.mapTable[ins.srcOp2] ELSE @,
                 !.insts[i].rdy2 = IF ins.srcOp2 # NONE
                                   THEN s.mapReady[s.mapTable[ins.srcOp2]] ELSE @,
                 !.insts[i].dstP = T,
                 !.insts[i].renamed = TRUE,
                 !.insts[i].allocRs = j,
                 !.insts[i].dispatchC = cycle,
                 !.freeList = IF hasDst THEN Tail(@) ELSE @,
                 !.mapTable = IF hasDst THEN [@ EXCEPT ![ins.dstOp] = T] ELSE @,
                 !.mapReady = IF hasDst THEN [@ EXCEPT ![T] = FALSE] ELSE @,
                 !.rob = Append(@, [inst |-> i, T |-> T, Told |-> Told]),
                 !.rs[j] = [busy |-> TRUE, inst |-> i],
                 !.hasProgress = TRUE,
                 !.dispatchQ = Tail(@)]
    IN Stamp(s1, i, "dispatch")

\* History of the stall that ended a dispatch loop (not program state).
NoteStall(s, why) ==
    IF why = "rob"
    THEN [s EXCEPT !.hist.robStall[Head(s.dispatchQ)] = cycle]
    ELSE IF why \in {"rs", "reg"}
    THEN [s EXCEPT !.hist.otherStall[Head(s.dispatchQ)] = cycle]
    ELSE s

\* Variant of DispatchLoop: a stalled head is popped from the queue.
RECURSIVE C15Mut_DispatchLoop(_, _)
C15Mut_DispatchLoop(s, i) ==
    IF i >= width THEN s
    ELSE IF DispatchStall(s) = "empty" THEN s
    ELSE IF DispatchStall(s) # "go"
         THEN [NoteStall(s, DispatchStall(s)) EXCEPT !.dispatchQ = Tail(@)]
    ELSE C15Mut_DispatchLoop(DispatchOne(s), i + 1)

RECURSIVE DispatchLoop(_, _)
DispatchLoop(s, i) ==
    IF i >= width THEN s
    ELSE IF DispatchStall(s) # "go" THEN NoteStall(s, DispatchStall(s))
    ELSE DispatchLoop(DispatchOne(s), i + 1)

(* ---------------------- decode ----------------------------------------- *)
\* Variant of DecodeOne: the relay does not mark progress.
C19Mut_DecodeOne(s) ==
    LET i == Head(s.decodeQ)
        s1 == [s EXCEPT
                 !.dispatchQ = Append(@, i),
                 !.insts[i].decodeC = cycle,
                 !.decodeQ = Tail(@)]
    IN Stamp(s1, i, "decode")

\* decode() lines 108-117: relay the head of the decode queue.
DecodeOne(s) ==
    LET i == Head(s.decodeQ)
        s1 == [s EXCEPT
                 !.dispatchQ = Append(@, i),
                 !.insts[i].decodeC = cycle,
                 !.hasProgress = TRUE,
                 !.decodeQ = Tail(@)]
    IN Stamp(s1, i, "decode")

RECURSIVE DecodeLoop(_, _)
DecodeLoop(s, i) ==
    IF i >= width THEN s
    ELSE IF s.decodeQ = <<>> THEN s
    ELSE DecodeLoop(DecodeOne(s), i + 1)

(* ---------------------- fetch ------------------------------------------ *)
\* fetch() lines 87-100: fetch instruction fetchPtr (0-based) and advance.
FetchOne(s) ==
    LET i == s.fetchPtr + 1
        s1 == [s EXCEPT
                 !.decodeQ = Append(@, i),
                 !.hasProgress = TRUE,
                 !.insts[i].fetchC = cycle,
                 !.fetchPtr = @ + 1,
                 !.isFetching = (s.fetchPtr + 1 < N)]
    IN Stamp(s1, i, "fetch")

RECURSIVE FetchLoop(_, _)
FetchLoop(s, i) ==
    IF i >= width \/ ~s.isFetching THEN s
    ELSE IF s.fetchPtr >= N THEN [s EXCEPT !.isFetching = FALSE]
    ELSE FetchLoop(FetchOne(s), i + 1)

(* ---------------------- simulate / tick -------------------------------- *)
\* CPU::isFinished
IsFinished == \A i \in Ids : insts[i].retired

\* Variant of LoopCond: the progress flag is not consulted.
C12Mut_LoopCond == ~IsFinished

\* simulate() line 46: the loop condition.
LoopCond == ~IsFinished /\ hasProgress

\* Variant of AdmitFreed: the pending registers are dropped, not admitted.
C6Mut_AdmitFreed(s) == [s EXCEPT !.freePrev = <<>>]

\* tick() lines 56-58: registers freed in the previous cycle join the free list.
AdmitFreed(s) ==
    [s EXCEPT !.freeList = @ \o s.freePrev, !.freePrev = <<>>]

\* simulate() line 45
Start ==
    /\ pc = "start"
    /\ hasProgress' = TRUE
    /\ pc' = "loop"
    /\ UNCHANGED <<cfgvars, insts, mapTable, mapReady, archMap, freeList,
                   freePrev, rob, rs, decodeQ, dispatchQ, executeQ, completeQ,
                   fetchPtr, isFetching, cycle, hist>>

\* simulate() lines 46-47 and tick() lines 56-58
TickBegin ==
    /\ pc = "loop"
    /\ LoopCond
    /\ WriteBack(AdmitFreed([St EXCEPT !.hasProgress = FALSE]))
    /\ pc' = "retire"
    /\ UNCHANGED <<cfgvars, cycle>>

\* simulate() line 46: the loop ends
LoopExit ==
    /\ pc = "loop"
    /\ ~LoopCond
    /\ pc' = "done"
    /\ UNCHANGED <<cfgvars, insts, mapTable, mapReady, archMap, freeList,
                   freePrev, rob, rs, decodeQ, dispatchQ, executeQ, completeQ,
                   fetchPtr, isFetching, hasProgress, cycle, hist>>

Retire ==
    /\ pc = "retire"
    /\ WriteBack(RetireLoop(St, 0))
    /\ pc' = "complete"
    /\ UNCHANGED <<cfgvars, cycle>>

Complete ==
    /\ pc = "complete"
    /\ WriteBack(CompleteLoop(St, 0))
    /\ pc' = "execute"
    /\ UNCHANGED <<cfgvars, cycle>>

Execute ==
    /\ pc = "execute"
    /\ WriteBack(ExecuteLoop(St, 0))
    /\ pc' = "issue"
    /\ UNCHANGED <<cfgvars, cycle>>

Issue ==
    /\ pc = "issue"
    /\ WriteBack(IssueLoop(St, 0, 1))
    /\ pc' = "dispatch"
    /\ UNCHANGED <<cfgvars, cycle>>

Dispatch ==
    /\ pc = "dispatch"
    /\ WriteBack(DispatchLoop(St, 0))
    /\ pc' = "decode"
    /\ UNCHANGED <<cfgvars, cycle>>

Decode ==
    /\ pc = "decode"
    /\ WriteBack(DecodeLoop(St, 0))
    /\ pc' = "fetch"
    /\ UNCHANGED <<cfgvars, cycle>>

Fetch ==
    /\ pc = "fetch"
    /\ WriteBack(FetchLoop(St, 0))
    /\ pc' = "endtick"
    /\ UNCHANGED <<cfgvars, cycle>>

\* simulate() line 50
CycleInc ==
    /\ pc = "endtick"
    /\ cycle' = cycle + 1
    /\ pc' = "loop"
    /\ UNCHANGED <<cfgvars, insts, mapTable, mapReady, archMap, freeList,
                   freePrev, rob, rs, decodeQ, dispatchQ, executeQ, completeQ,
                   fetchPtr, isFetching, hasProgress, hist>>

Next ==
    \/ Start
    \/ TickBegin
    \/ LoopExit
    \/ Retire
    \/ Complete
    \/ Execute
    \/ Issue
    \/ Dispatch
    \/ Decode
    \/ Fetch
    \/ CycleInc

Spec == Init /\ [][Next]_vars

(* ====================== properties ===================================== *)
Min(S) == CHOOSE x \in S : \A y \in S : x <= y

\* The seven timestamps of instruction i, in pipeline order.
Times(i) ==
    << insts[i].fetchC, insts[i].decodeC, insts[i].dispatchC, insts[i].issueC,
       insts[i].executeC, insts[i].completeC, insts[i].retireC >>

\* Number of instructions whose k-th stage timestamp is cycle c.
StageCount(k, c) == Cardinality({ i \in Ids : Times(i)[k] = c })

FreeSet == SeqToSet(freeList)
MappedSet == { mapTable[a] : a \in DOMAIN mapTable }
\* The Told registers awaiting release: held by a ROB entry of an instruction
\* with a destination, or queued in freePhysRegsPrevCycle.
PendingTold ==
    [k \in 1..Len(rob) |-> rob[k].Told] \o freePrev
PendingSeq == SelectSeq(PendingTold, LAMBDA r : r # NONE)
PendingSet == SeqToSet(PendingSeq)

\* Every stage of the current cycle has run (timestamps are only ever
\* written by the stages, so what holds of them here holds mid-cycle too).
CycleEnd == pc \in {"endtick", "done"}

(* ---- C1 ---- *)
\* C1: program-order retirement: for instructions i < j, j is never retired
\* while i is not, and retire(i) <= retire(j).
C1_ProgramOrderRetire ==
    CycleEnd => \A i, j \in Ids :
        (i < j /\ insts[j].retired) =>
            /\ insts[i].retired
            /\ insts[i].retireC <= insts[j].retireC

\* Both retired although the younger one completed first.
C1_Witness ==
    \E i, j \in Ids :
        /\ i < j
        /\ insts[i].retired /\ insts[j].retired
        /\ insts[j].completeC < insts[i].completeC

(* ---- C2 ---- *)
\* C2: stage monotonicity: the timestamps an instruction has are strictly
\* increasing in pipeline order, and each timestamp was written at most once.
C2_StageMonotonic ==
    CycleEnd => \A i \in Ids :
        LET t == Times(i) IN
        /\ \A a \in 1..6 : \A b \in (a + 1)..7 :
              (t[a] # NONE /\ t[b] # NONE) => t[a] < t[b]
        /\ \A s \in Stages : hist.nset[i][s] <= 1

\* An instruction that went through all seven stages, each stamped once.
C2_Witness ==
    \E i \in Ids :
        /\ insts[i].retired
        /\ \A a \in 1..7 : Times(i)[a] # NONE
        /\ \A s \in Stages : hist.nset[i][s] = 1

(* ---- C3 ---- *)
\* C3: register conservation: at the end of every cycle the free list, the targets of the speculative
\* map table and the Told registers awaiting release have no repeated
\* register, are pairwise disjoint, and together are all physical registers.
C3_RegisterConservation ==
    CycleEnd =>
    /\ Cardinality(FreeSet) = Len(freeList)
    /\ Cardinality(MappedSet) = NumArch
    /\ Cardinality(PendingSet) = Len(PendingSeq)
    /\ FreeSet \cap MappedSet = {}
    /\ FreeSet \cap PendingSet = {}
    /\ MappedSet \cap PendingSet = {}
    /\ FreeSet \cup MappedSet \cup PendingSet = 0..(numPhys - 1)
    /\ Len(freeList) + NumArch + Len(PendingSeq) = numPhys

\* End of a cycle with a register just released by a retirement and a ROB
\* entry whose new register is a recycled initial register.
C3_Witness ==
    /\ pc = "endtick"
    /\ freePrev # <<>>
    /\ \E k \in 1..Len(rob) : rob[k].Told # NONE /\ rob[k].T \in 0..(NumArch - 1)

(* ---- C4 ---- *)
\* C4 (as claimed): an initially mapped physical register is never in the
\* free list.
C4_InitialNeverFree ==
    \A a \in DOMAIN InitMap : InitMap[a] \notin FreeSet

\* C4 (amended): the initial physical register of architectural register a
\* is in the free list only after an instruction writing a has retired.
C4_InitialFreeOnlyAfterRetire ==
    \A a \in DOMAIN InitMap :
        InitMap[a] \in FreeSet =>
            \E i \in Ids : prog[i].dstOp = a /\ insts[i].retired

\* An initial register that has reached the free list.
C4_Witness ==
    \E a \in DOMAIN InitMap : InitMap[a] \in FreeSet

(* ---- C5 ---- *)
\* C5: the speculative map table is injective.
C5_MapInjective ==
    \A a, b \in DOMAIN mapTable : a # b => mapTable[a] # mapTable[b]

\* After dispatch has renamed two different architectural registers.
C5_Witness ==
    /\ pc = "decode"
    /\ Cardinality({ a \in DOMAIN mapTable : mapTable[a] # InitMap[a] }) >= 2

(* ---- C6 ---- *)
AllRetired == \A i \in Ids : insts[i].retired

\* C6 (as claimed): simulate() stops only with every instruction retired.
C6_StopsAllRetired == pc = "done" => AllRetired

\* A ROB entry exists and a physical register beyond the architectural ones.
C6_Resources == robEntries >= 1 /\ numPhys > NumArch

\* Cycles simulate() may take for n instructions: the first retires by
\* cycle 7 and each further one within six cycles of its predecessor.
CycleBudget(n) == 6 * n + 2

\* C6 (amended): with ROB capacity >= 1 and at least one physical register
\* beyond the architectural ones, simulate() stops within the cycle budget,
\* the watchdog does not end the loop, and every instruction has retired
\* when it stops.
C6_TerminatesAllRetired ==
    C6_Resources =>
        /\ cycle <= CycleBudget(N)
        /\ (pc = "loop" /\ ~AllRetired) => hasProgress
        /\ pc = "done" => AllRetired

\* A finished run in which dispatch had stalled on the ROB and on a register.
C6_Witness ==
    /\ pc = "done" /\ AllRetired /\ C6_Resources
    /\ \E i \in Ids : hist.robStall[i] # NONE
    /\ \E i \in Ids : hist.otherStall[i] # NONE

(* ---- C7 ---- *)
ClaimedLatency(t) == IF t = "ALU" THEN 1 ELSE 2

\* C7: a completed instruction completed no earlier than its execute cycle
\* (hence its issue cycle) plus the latency of its station type.
C7_LatencyLowerBound ==
    CycleEnd => \A i \in Ids :
        insts[i].completed =>
            /\ insts[i].completeC >= insts[i].executeC + ClaimedLatency(prog[i].type)
            /\ insts[i].completeC >= insts[i].issueC + ClaimedLatency(prog[i].type)

\* A load completed exactly at its deadline and an instruction completed
\* after its deadline.
C7_Witness ==
    /\ \E i \in Ids :
          /\ insts[i].completed /\ prog[i].type = "LOAD"
          /\ insts[i].completeC = insts[i].executeC + 2
    /\ \E i \in Ids :
          /\ insts[i].completed
          /\ insts[i].completeC > insts[i].executeC + ClaimedLatency(prog[i].type)

(* ---- C8 ---- *)
RetireCycles == { insts[k].retireC : k \in Ids } \ {NONE}

\* The cycle of the first retirement after cycle c.
FirstRetireAfter(c) == Min({ r \in RetireCycles : r > c })

\* Instructions that were held at the head of the dispatch queue by a full
\* ROB and have been dispatched since.
RobBlockedThenDispatched ==
    { i \in Ids : hist.robStall[i] # NONE /\ insts[i].dispatchC # NONE }

\* C8 (as claimed): the instruction blocked by the full ROB is dispatched in
\* the cycle after the retirement that frees an entry.
C8_DispatchCycleAfterRetire ==
    CycleEnd => \A i \in RobBlockedThenDispatched :
        /\ \E r \in RetireCycles : r > hist.robStall[i]
        /\ insts[i].dispatchC = FirstRetireAfter(hist.robStall[i]) + 1

\* C8 (amended): dispatch is stopped by the ROB exactly when the ROB is full
\* at the moment dispatch examines the instruction, and the blocked
\* instruction is dispatched in the same cycle as the retirement that frees
\* an entry, unless a station or a free register is missing then.
C8_DispatchSameCycleAsRetire ==
    /\ CycleEnd => \A i \in RobBlockedThenDispatched :
          /\ \E r \in RetireCycles : r > hist.robStall[i]
          /\ insts[i].dispatchC >= FirstRetireAfter(hist.robStall[i])
          /\ hist.otherStall[i] < hist.robStall[i]
                => insts[i].dispatchC = FirstRetireAfter(hist.robStall[i])
    /\ pc = "decode" =>
          \A i \in Ids :
              hist.robStall[i] = cycle <=>
                  /\ dispatchQ # <<>> /\ Head(dispatchQ) = i
                  /\ Len(rob) >= robEntries
                  /\ StageCount(3, cycle) < width

\* A program longer than the ROB whose blocked instruction was dispatched in
\* the cycle of a retirement.
C8_Witness ==
    /\ N > robEntries /\ robEntries >= 1
    /\ \E i \in RobBlockedThenDispatched :
          /\ insts[i].dispatchC = hist.robStall[i] + 1
          /\ \E k \in Ids : insts[k].retireC = insts[i].dispatchC

(* ---- C9 ---- *)
\* width = 2 and the program [ALU r1 <- r0,r0 ; ALU r2 <- r1,r0].
C9_Scenario ==
    /\ width = 2
    /\ prog = << Inst("ALU", 0, 0, 1), Inst("ALU", 1, 0, 2) >>

\* C9 (as claimed): the second instruction is dispatched one cycle after the
\* first, and both retire in program order (read with resources for both, so
\* that only the dependency could delay the second).
C9_DispatchOneCycleLater ==
    (C9_Scenario /\ pc = "done" /\ robEntries >= 2 /\ numPhys >= NumArch + 2) =>
        /\ insts[2].dispatchC = insts[1].dispatchC + 1
        /\ insts[1].retired /\ insts[2].retired
        /\ insts[1].retireC <= insts[2].retireC

\* C9 (amended): with two ROB entries and two free registers both are
\* dispatched in the same cycle; the dependency on r1 delays the issue of the
\* second until the cycle the first completes; both retire in program order.
C9_DependencyDelaysIssue ==
    (C9_Scenario /\ pc = "done" /\ robEntries >= 2 /\ numPhys >= NumArch + 2) =>
        /\ insts[2].dispatchC = insts[1].dispatchC
        /\ insts[2].srcP1 = insts[1].dstP
        /\ insts[2].issueC = insts[1].completeC
        /\ insts[1].retired /\ insts[2].retired
        /\ insts[1].retireC <= insts[2].retireC

\* The scenario has run to its end.
C9_Witness ==
    /\ C9_Scenario /\ pc = "done" /\ robEntries >= 2 /\ numPhys >= NumArch + 2
    /\ insts[2].retired

(* ---- C10 ---- *)
\* C10: in every cycle every stage advances at most width instructions.
C10_WidthBound ==
    \A k \in 1..7 : \A c \in 0..cycle : StageCount(k, c) <= width

(* ---- C11 ---- *)
\* C11: one-cycle-delayed release: retire() leaves the free list alone and
\* queues Told outside it; no stage takes a register out of the queue or
\* allocates one from it; the start of the next tick moves the whole queue
\* to the free list, before any stage runs.
C11_DelayedRelease ==
    [][ /\ (pc = "retire" /\ pc' = "complete") =>
              /\ freeList' = freeList
              /\ SeqToSet(freePrev') \cap SeqToSet(freeList') = {}
        /\ (pc \in {"complete", "execute", "issue", "dispatch", "decode",
                    "fetch", "endtick"}) => freePrev' = freePrev
        /\ (pc = "dispatch" /\ pc' = "decode") =>
              \A i \in Ids :
                  insts'[i].dispatchC = cycle => insts'[i].dstP \notin SeqToSet(freePrev)
        /\ (pc = "loop" /\ pc' = "retire") =>
              /\ freeList' = freeList \o freePrev
              /\ freePrev' = <<>>
      ]_vars

\* Dispatch has allocated a destination in a cycle in which retire() queued
\* a register for release.
C11_Witness ==
    /\ pc = "decode"
    /\ freePrev # <<>>
    /\ \E i \in Ids : insts[i].dispatchC = cycle /\ insts[i].dstP # NONE

(* ---- C12 ---- *)
\* C12: simulate() stops for every configuration and program, also those
\* that stall for ever: the cycle counter stays within the budget and a
\* cycle without progress ends the loop.
C12_WatchdogHalts ==
    /\ cycle <= CycleBudget(N)
    /\ (pc = "loop" /\ ~hasProgress) => (ENABLED LoopExit /\ ~ENABLED TickBegin)

\* simulate() has stopped on a permanent stall: no ROB entry at all, or no
\* register for an instruction with a destination.
C12_Witness ==
    /\ pc = "done" /\ ~AllRetired
    /\ dispatchQ # <<>>
    /\ robEntries >= 1
    /\ freeList = <<>> /\ freePrev = <<>>

(* ---- C13 ---- *)
\* C13: when complete() has run, no instruction left in the complete queue
\* has reached its latency deadline.
C13_PromptCompletion ==
    pc = "execute" =>
        \A k \in 1..Len(completeQ) :
            cycle < insts[completeQ[k]].executeC + insts[completeQ[k]].execTime

(* ---- C14 ---- *)
\* The source architectural registers of instruction c.
SrcRegs(c) == {prog[c].srcOp1, prog[c].srcOp2} \ {NONE}

\* The most recent earlier writer of architectural register r before
\* instruction c in program order, 0 if there is none.
LastWriter(c, r) ==
    LET W == {p \in 1..(c - 1) : prog[p].dstOp = r}
    IN IF W = {} THEN 0 ELSE CHOOSE p \in W : \A q \in W : q <= p

\* C14: an issued instruction has all its present sources ready, and its
\* issue cycle is not before the complete cycle of the most recent earlier
\* writer of each of its source registers.
C14_RawOrdering ==
    CycleEnd =>
        \A c \in Ids :
            insts[c].issueC # NONE =>
                /\ insts[c].rdy1
                /\ (prog[c].srcOp2 = NONE \/ insts[c].rdy2)
                /\ \A r \in SrcRegs(c) :
                       LET p == LastWriter(c, r) IN
                       p # 0 => /\ insts[p].completeC # NONE
                                /\ insts[p].completeC <= insts[c].issueC

\* A consumer was dispatched before its producer completed, waited in its
\* station and has issued.
C14_Witness ==
    /\ CycleEnd
    /\ \E c \in Ids : \E r \in SrcRegs(c) :
           /\ LastWriter(c, r) # 0
           /\ insts[c].issueC # NONE
           /\ insts[LastWriter(c, r)].completeC # NONE
           /\ insts[c].dispatchC < insts[LastWriter(c, r)].completeC

(* ---- C15 ---- *)
\* Instruction i was refused at the head of the dispatch queue in cycle c.
StalledIn(h, i, c) == h.robStall[i] = c \/ h.otherStall[i] = c

\* C15: a dispatch step whose first attempt fails changes no program state;
\* an instruction refused in a dispatch step stays at the head of the queue
\* with its record untouched and nothing younger is dispatched in that
\* cycle; dispatch cycles are non-decreasing in program order.
C15_StallIsNoOp ==
    [][ (pc = "dispatch" /\ pc' = "decode") =>
          /\ (DispatchStall(St) # "go") =>
                UNCHANGED <<insts, mapTable, mapReady, archMap, freeList,
                            freePrev, rob, rs, decodeQ, dispatchQ, executeQ,
                            completeQ, hasProgress>>
          /\ \A i \in Ids :
                StalledIn(hist', i, cycle) =>
                    /\ dispatchQ' # <<>> /\ Head(dispatchQ') = i
                    /\ insts'[i] = insts[i]
                    /\ insts'[i].dispatchC = NONE /\ ~insts'[i].renamed
                    /\ \A j \in Ids : j > i => insts'[j].dispatchC = NONE
          /\ \A i, j \in Ids :
                (i < j /\ insts'[j].dispatchC # NONE) =>
                    /\ insts'[i].dispatchC # NONE
                    /\ insts'[i].dispatchC <= insts'[j].dispatchC
      ]_vars

\* In one dispatch step an instruction was dispatched and the next one was
\* refused.
C15_Witness ==
    /\ pc = "decode"
    /\ \E i, j \in Ids :
           /\ i < j
           /\ insts[i].dispatchC = cycle
           /\ StalledIn(hist, j, cycle)

(* ---- C16 ---- *)
\* The ROB positions that hold instruction i.
RobPositions(i) == {k \in 1..Len(rob) : rob[k].inst = i}

\* C16: the ROB never holds more entries than its capacity, and an
\* instruction has exactly one entry while dispatched and not retired and
\* none otherwise.
C16_RobCapacity ==
    /\ Len(rob) <= robEntries
    /\ \A i \in Ids :
           Cardinality(RobPositions(i)) =
               IF insts[i].dispatchC # NONE /\ ~insts[i].retired THEN 1 ELSE 0

\* Dispatch has filled the ROB to its capacity in this cycle and refused the
\* next instruction.
C16_Witness ==
    /\ pc = "decode"
    /\ robEntries >= 2
    /\ Len(rob) = robEntries
    /\ \E i \in Ids : insts[i].dispatchC = cycle
    /\ dispatchQ # <<>> /\ hist.robStall[Head(dispatchQ)] = cycle

(* ---- C17 ---- *)
\* Some instruction entered some stage in cycle c.
AnyAdvance(c) == \E i \in Ids : \E k \in 1..7 : Times(i)[k] = c

\* C17 (as claimed): with an instruction unretired, simulate() stops after a
\* cycle exactly when no instruction advanced in it: a stop follows a cycle
\* without advance, and a cycle that is followed by another had an advance.
C17_StopsIffNoAdvance ==
    /\ (pc = "done" /\ ~AllRetired) => ~AnyAdvance(cycle - 1)
    /\ (pc = "retire" /\ cycle > 0) => AnyAdvance(cycle - 1)

\* C17 (amended): simulate() stops after a cycle exactly when no instruction
\* advanced in it and the complete queue is empty; a cycle without advance
\* in which an instruction waits in the complete queue is followed by
\* another cycle.
C17_StopsIffNoAdvanceAndNoneWaiting ==
    /\ (pc = "done" /\ ~AllRetired) =>
           (~AnyAdvance(cycle - 1) /\ completeQ = <<>>)
    /\ (pc = "retire" /\ cycle > 0) =>
           (AnyAdvance(cycle - 1) \/ completeQ # <<>>)

\* A new cycle has begun after a cycle in which nothing advanced while an
\* instruction waited in the complete queue.
C17_Witness ==
    /\ pc = "retire" /\ cycle > 0
    /\ ~AnyAdvance(cycle - 1)
    /\ completeQ # <<>>

(* ---- C18 ---- *)
\* The retired instructions that write architectural register r.
RetiredWriters(r) == {i \in Ids : insts[i].retired /\ prog[i].dstOp = r}

\* C18: in every state the committed map sends each architectural register
\* to the destination register of its last retired writer in program order,
\* or to its initial register if no writer has retired.
C18_CommittedMap ==
    \A r \in 0..(NumArch - 1) :
        LET W == RetiredWriters(r) IN
        archMap[r] = IF W = {} THEN InitMap[r]
                     ELSE insts[CHOOSE i \in W : \A q \in W : q <= i].dstP

\* Two writers of one register and an instruction without destination have
\* retired.
C18_Witness ==
    /\ \E r \in 0..(NumArch - 1) : Cardinality(RetiredWriters(r)) >= 2
    /\ \E i \in Ids : insts[i].retired /\ prog[i].dstOp = NONE

(* ---- C19 ---- *)
\* tick() lines 54-68 applied to state record s: one whole cycle. The
\* progress flag is not reset here (simulate() line 47 does that); the
\* stages only ever set it.
TickOnce(s) ==
    LET s0 == AdmitFreed(s)
        s1 == RetireLoop(s0, 0)
        s2 == CompleteLoop(s1, 0)
        s3 == ExecuteLoop(s2, 0)
        s4 == [IssueLoop(s3, 0, 1) EXCEPT !.cnt = 0]
        s5 == DispatchLoop(s4, 0)
        s6 == DecodeLoop(s5, 0)
    IN FetchLoop(s6, 0)

\* C19: when simulate() has stopped with an instruction unretired, the
\* complete queue and the pending-release list are empty and one more
\* tick() marks no progress and changes no program state. The progress
\* flag is false in the stopping state, so a flag that is false after the
\* tick means that no stage set it.
C19_TrueDeadlock ==
    (pc = "done" /\ ~AllRetired) =>
        /\ ~hasProgress
        /\ completeQ = <<>>
        /\ freePrev = <<>>
        /\ ~TickOnce(St).hasProgress
        /\ [TickOnce(St) EXCEPT !.hist = hist] = St

\* simulate() has stopped after retiring part of the program, with an
\* instruction left in the dispatch queue that dispatch refuses for ever.
C19_Witness ==
    /\ pc = "done" /\ ~AllRetired
    /\ dispatchQ # <<>>
    /\ \E i \in Ids : insts[i].retired

(* ---- C20 ---- *)
\* Instruction i is dispatched and not retired.
InFlight(i) == insts[i].dispatchC # NONE /\ ~insts[i].retired

\* The physical registers instruction i names.
RegsOf(i) == {insts[i].srcP1, insts[i].srcP2, insts[i].dstP} \ {NONE}

\* C20: no register in the free list is named by an in-flight instruction
\* or a ROB entry; the destination register of an in-flight instruction is
\* named by no older in-flight instruction and no older ROB entry; a source
\* register of an in-flight instruction is the destination of no in-flight
\* instruction other than the most recent earlier writer of that source.
\* Stated where the registers involved can have changed: after the admission
\* of freed registers, after retire, before and after dispatch, at the stop.
C20_NoPrematureReuse ==
  pc \in {"retire", "complete", "dispatch", "decode", "done"} =>
    /\ \A p \in FreeSet :
           /\ \A i \in Ids : InFlight(i) => p \notin RegsOf(i)
           /\ \A k \in 1..Len(rob) : rob[k].T # p /\ rob[k].Told # p
    /\ \A i \in Ids :
           (InFlight(i) /\ insts[i].dstP # NONE) =>
               /\ \A j \in 1..(i - 1) :
                      InFlight(j) => insts[i].dstP \notin RegsOf(j)
               /\ \A k \in 1..Len(rob) :
                      rob[k].inst < i =>
                          (rob[k].T # insts[i].dstP /\ rob[k].Told # insts[i].dstP)
    /\ \A c \in Ids : InFlight(c) =>
           /\ \A x \in Ids :
                 (InFlight(x) /\ insts[x].dstP # NONE
                    /\ insts[x].dstP = insts[c].srcP1) =>
                     x = LastWriter(c, prog[c].srcOp1)
           /\ \A x \in Ids :
                 (InFlight(x) /\ insts[x].dstP # NONE /\ prog[c].srcOp2 # NONE
                    /\ insts[x].dstP = insts[c].srcP2) =>
                     x = LastWriter(c, prog[c].srcOp2)

\* Dispatch has allocated a register that was released by an earlier
\* retirement, while an older instruction is still in flight.
C20_Witness ==
    /\ pc = "decode"
    /\ \E i \in Ids :
           /\ insts[i].dispatchC = cycle
           /\ insts[i].dstP \in 0..(NumArch - 1)
           /\ \E j \in 1..(i - 1) : InFlight(j)

====
